---- MODULE Spec2Model ----
(***************************************************************************)
(* Anonymous e-cash with double-spend detection (Lab 5): the Coin class of *)
(* coin.js and the bank / merchant procedures of driver.js.                *)
(*                                                                         *)
(* Strings are sequences of character codes, Buffers are sequences of      *)
(* bytes (0..255).  The RSA blind-signature library is modelled by its     *)
(* textbook arithmetic over a small modulus; utils.js (hash, makeOTP,      *)
(* decryptOTP, makeGUID, randInt) is modelled from its contract.           *)
(***************************************************************************)
EXTENDS Integers, Sequences, FiniteSets, TLC

(***************************************************************************)
(* Bounds of the model                                                     *)
(***************************************************************************)
\* coin.js:5 sets COIN_RIS_LENGTH = 20; the model scales the number of
\* identity pairs down so that all 2^K choice patterns are enumerated.
COIN_RIS_LENGTH == 2

(***************************************************************************)
(* Characters and strings                                                  *)
(***************************************************************************)
Colon == <<58>>
Dash == <<45>>
Comma == <<44>>
\* U+FFFD, what Buffer.toString() yields for a byte that is not valid UTF-8
ReplacementChar == <<65533>>

\* "IDENT"
IDENT_STR == <<73, 68, 69, 78, 84>>
\* "ELECTRONIC_PIGGYBANK"
BANK_STR == <<69, 76, 69, 67, 84, 82, 79, 78, 73, 67, 95, 80, 73, 71, 71, 89, 66, 65, 78, 75>>

RECURSIVE Join(_, _)
\* Array.prototype.join
Join(ss, sep) ==
    IF ss = <<>> THEN <<>>
    ELSE IF Len(ss) = 1 THEN ss[1]
    ELSE ss[1] \o sep \o Join(Tail(ss), sep)

\* the positions of the character ch in s
Positions(s, ch) == {i \in 1..Len(s) : s[i] = ch}

\* the k-th smallest member of a set of positions, 0 for k = 0
KthOf(P, k) == IF k = 0 THEN 0 ELSE CHOOSE p \in P : Cardinality({q \in P : q < p}) = k - 1

\* String.prototype.split with a one-character separator: field k runs from
\* behind separator k - 1 to before separator k
Split(s, sep) ==
    LET P == Positions(s, sep[1])
        n == Cardinality(P)
    IN  [k \in 1..(n + 1) |->
            SubSeq(s, KthOf(P, k - 1) + 1, IF k = n + 1 THEN Len(s) ELSE KthOf(P, k) - 1)]

\* String.prototype.startsWith
StartsWith(s, p) == Len(s) >= Len(p) /\ SubSeq(s, 1, Len(p)) = p

RECURSIVE DigitsOf(_)
\* the decimal digits of a natural number
DigitsOf(n) == IF n < 10 THEN <<48 + n>> ELSE Append(DigitsOf(n \div 10), 48 + (n % 10))

\* Number to string, as a template literal renders it
NumToString(n) == IF n < 0 THEN Dash \o DigitsOf(0 - n) ELSE DigitsOf(n)

(***************************************************************************)
(* Bytes, hex and UTF-8                                                    *)
(***************************************************************************)
RECURSIVE XorBits(_, _, _)
\* bitwise exclusive or of the w low bits of a and b
XorBits(a, b, w) ==
    IF w = 0 THEN 0
    ELSE ((a + b) % 2) + 2 * XorBits(a \div 2, b \div 2, w - 1)

ByteXor(a, b) == XorBits(a, b, 8)

HexDigit(d) == IF d < 10 THEN 48 + d ELSE 87 + d

IsHexChar(c) == (c >= 48 /\ c <= 57) \/ (c >= 97 /\ c <= 102) \/ (c >= 65 /\ c <= 70)

HexValue(c) == IF c <= 57 THEN c - 48 ELSE IF c >= 97 THEN c - 87 ELSE c - 55

\* Buffer.prototype.toString('hex'): two digits a byte
HexEncode(buf) ==
    [k \in 1..(2 * Len(buf)) |->
        IF k % 2 = 1 THEN HexDigit(buf[(k + 1) \div 2] \div 16)
        ELSE HexDigit(buf[k \div 2] % 16)]

RECURSIVE HexDecode(_)
\* Buffer.from(s, 'hex'): whole pairs of hex digits, up to the first pair
\* that is not one
HexDecode(s) ==
    IF Len(s) < 2 THEN <<>>
    ELSE IF ~(IsHexChar(s[1]) /\ IsHexChar(s[2])) THEN <<>>
    ELSE <<16 * HexValue(s[1]) + HexValue(s[2])>> \o HexDecode(SubSeq(s, 3, Len(s)))

\* Buffer.from(string): the strings of the model are ASCII
StringToBuffer(s) == s

\* Buffer.prototype.toString(): an ASCII byte is its character, any other
\* byte decodes to the replacement character
BufferToString(buf) == [i \in 1..Len(buf) |-> IF buf[i] < 128 THEN buf[i] ELSE ReplacementChar[1]]

(***************************************************************************)
(* utils.js: hash, one-time pad, GUID and random bits                      *)
(***************************************************************************)
\* utils.hash: a deterministic digest in hex; collision resistance is
\* modelled by a digest that is one-to-one on the bytes hashed
hash(buf) == HexEncode([i \in 1..Len(buf) |-> (7 * buf[i] + i) % 256])

\* the seeds of the random byte strings the model draws
KeySeeds == {0, 131}

\* crypto.randomBytes(n), from a seed
RandomBytes(n, seed) == [j \in 1..n |-> (seed + 17 * j) % 256]

\* the keys one constructor call can draw for its indices, each n bytes: a
\* fresh random string an index
KeyDraws(n) ==
    {[i \in 1..COIN_RIS_LENGTH |-> RandomBytes(n, seed + 29 * i)] : seed \in KeySeeds}

\* the same draws with makeOTP failing at one index
FailedKeyDraws(n) ==
    {[keys EXCEPT ![k] = <<>>] : keys \in KeyDraws(n), k \in 1..COIN_RIS_LENGTH}

\* utils.makeOTP({string}) for the key drawn: ciphertext = plaintext XOR key;
\* the empty key stands for a call that hands back nothing
makeOTP(string, key) ==
    LET buffer == StringToBuffer(string)
    IN  IF key = <<>> THEN [key |-> <<>>, ciphertext |-> <<>>]
        ELSE [key |-> key,
              ciphertext |-> [i \in 1..Len(buffer) |-> ByteXor(buffer[i], key[i])]]

\* utils.decryptOTP({key, ciphertext, returnType: 'string'}) for buffers of
\* equal length
decryptOTP(key, ciphertext) ==
    BufferToString([i \in 1..Len(key) |-> ByteXor(key[i], ciphertext[i])])

\* utils.makeGUID: a hex string ("c0de")
GUIDS == {<<99, 48, 100, 101>>}

(***************************************************************************)
(* blind-signatures: RSA blind signatures                                  *)
(***************************************************************************)
\* the bank's key pair, BANK_KEY: two primes and the exponents
BANK_P == 3
BANK_Q == 11
N == BANK_P * BANK_Q
E == 3
BANK_D == 7

RECURSIVE GCD(_, _)
GCD(a, b) == IF b = 0 THEN a ELSE GCD(b, a % b)

RECURSIVE ModPow(_, _, _)
ModPow(b, x, m) == IF x = 0 THEN 1 % m ELSE (b * ModPow(b, x - 1, m)) % m

ModInverse(a, m) == CHOOSE x \in 0..(m - 1) : (a * x) % m = 1 % m

RECURSIVE SumBetween(_, _, _)
\* s[lo] + ... + s[hi]
SumBetween(s, lo, hi) ==
    IF lo > hi THEN 0
    ELSE IF lo = hi THEN s[lo]
    ELSE SumBetween(s, lo, (lo + hi) \div 2) + SumBetween(s, (lo + hi) \div 2 + 1, hi)

SumOf(s) == SumBetween(s, 1, Len(s))

RECURSIVE UnitFrom(_, _)
UnitFrom(x, m) == IF GCD(x % m, m) = 1 THEN x % m ELSE UnitFrom(x + 1, m)

\* messageToHashInt: the message digest as an integer; a digest shares no
\* factor with the modulus
MessageToHashInt(message, m) == UnitFrom(SumOf(message), m)

\* the blinding factors blind() can draw: 1 < r < N, gcd(r, N) = 1
BlindingFactors == {2, 5}

\* what a blind() call gets from the library: a factor, or nothing (0)
BlindDraws == BlindingFactors \cup {0}

\* blindSignatures.blind({message, N, E}) for the factor r drawn
BsBlind(message, n, e, r) ==
    [blinded |-> (MessageToHashInt(message, n) * ModPow(r, e, n)) % n, r |-> r]

\* blindSignatures.sign({blinded, key: BANK_KEY})
BsSign(blinded) == ModPow(blinded, BANK_D, N)

\* blindSignatures.unblind({signed, N, r})
BsUnblind(signed, n, r) == (signed * ModInverse(r, n)) % n

\* blindSignatures.verify({unblinded, N, E, message})
BsVerify(unblinded, n, e, message) == ModPow(unblinded, e, n) = MessageToHashInt(message, n)

(***************************************************************************)
(* State                                                                   *)
(***************************************************************************)
VARIABLES
    coin,      \* the Coin object, NoCoin before a constructor call succeeded
    owner,     \* the purchaser string the coin was constructed for
    sigKind,   \* how coin.signature came about
    res,       \* the last call and what it returned or threw
    ris1,      \* the report of the first merchant
    ris2,      \* the report of the second merchant
    outcome,   \* what determineCheater printed last, and for which reports
    pc         \* the line the driver's main flow is at

vars == <<coin, owner, sigKind, res, ris1, ris2, outcome, pc>>

\* the variables of the driver's main flow
flow == <<ris1, ris2, outcome, pc>>

\* undefined, for a string
Undefined == <<0 - 1>>

NoCoin == [constructed |-> FALSE]

\* a call that returned normally, with nothing to report yet
Returned(op) ==
    [op |-> op, err |-> <<>>, pos |-> 0, ris |-> <<>>, val |-> <<>>,
     reads |-> 0, bits |-> <<>>, calls |-> {}, args |-> <<>>]

\* a call that threw: err is the chain of errors, outermost first
Threw(op, err) == [Returned(op) EXCEPT !.err = err]

(***************************************************************************)
(* coin.js: class Coin                                                     *)
(***************************************************************************)
\* blind(), coin.js:44-59, for the factor r drawn; r = 0 stands for a
\* library call that hands back no blinded value or factor, which line 52
\* throws on and line 57 rethrows; a field that is 0 is undefined
CoinBlind(c, r) ==
    IF r = 0
    THEN [err |-> <<"BlindingFailed", "PrimitiveFailure">>, coin |-> c]
    ELSE LET b == BsBlind(c.coinString, c.n, c.e, r)
         IN  [err |-> <<>>,
              coin |-> [c EXCEPT !.blinded = b.blinded, !.blindingFactor = b.r]]

\* ParametersMissing with the check of e left out
ParametersMissingButE(purchaser, amount, n, e) ==
    purchaser = <<>> \/ amount = 0 \/ n = 0

\* line 11: a missing or empty string, a missing or zero number
ParametersMissing(purchaser, amount, n, e) ==
    purchaser = <<>> \/ amount = 0 \/ n = 0 \/ e = 0

\* CommitmentString with line 34 hashing the key a second time
CommitmentStringKeyTwice(amount, guid, leftIdent, rightIdent) ==
    LET leftHashes == [i \in 1..Len(leftIdent) |-> hash(leftIdent[i])]
        rightHashes == [i \in 1..Len(rightIdent) |-> hash(leftIdent[i])]
    IN  Join(<<BANK_STR, NumToString(amount), guid,
               Join(leftHashes, Comma), Join(rightHashes, Comma)>>, Dash)

\* the hash lists and the coin string the constructor builds, coin.js:23-37
CommitmentString(amount, guid, leftIdent, rightIdent) ==
    LET leftHashes == [i \in 1..Len(leftIdent) |-> hash(leftIdent[i])]
        rightHashes == [i \in 1..Len(rightIdent) |-> hash(rightIdent[i])]
    IN  Join(<<BANK_STR, NumToString(amount), guid,
               Join(leftHashes, Comma), Join(rightHashes, Comma)>>, Dash)

\* an identity string without its separator
IdentityStringNoColon(purchaser) == IDENT_STR \o purchaser

\* the string every index encrypts, coin.js:25
IdentityString(purchaser) == IDENT_STR \o Colon \o purchaser

\* a catch that forgets what it caught
ConstructorCatchDropsCause(err) == <<"CoinCreationFailed">>

\* the catch of the constructor, coin.js:39-41: the error thrown inside the
\* try, under the constructor's own name
ConstructorCatch(err) == <<"CoinCreationFailed">> \o err

\* the first index (from 1) at which makeOTP handed back no key or no
\* ciphertext, 0 if there is none: an empty string stands for none
FirstOtpFailure(otp) ==
    LET failed == {i \in 1..Len(otp) : otp[i].key = <<>> \/ otp[i].ciphertext = <<>>}
    IN  IF failed = {} THEN 0 ELSE CHOOSE i \in failed : \A j \in failed : i <= j

\* constructor(purchaser, amount, n, e), coin.js:10-42, for the guid, the
\* one-time-pad keys and the blinding factor drawn; what is thrown inside
\* the try of line 22 is rethrown by line 40
CoinConstructor(purchaser, amount, n, e, guid, keys, r) ==
    IF ParametersMissing(purchaser, amount, n, e)
    THEN [err |-> <<"InvalidParameters">>, coin |-> NoCoin, calls |-> {}]
    ELSE LET ident == IdentityString(purchaser)
             otp == [i \in 1..COIN_RIS_LENGTH |-> makeOTP(ident, keys[i])]
             leftIdent == [i \in 1..COIN_RIS_LENGTH |-> otp[i].key]
             rightIdent == [i \in 1..COIN_RIS_LENGTH |-> otp[i].ciphertext]
             coinString == CommitmentString(amount, guid, leftIdent, rightIdent)
             c == [constructed |-> TRUE, amount |-> amount, n |-> n, e |-> e,
                   guid |-> guid, leftIdent |-> leftIdent, rightIdent |-> rightIdent,
                   coinString |-> coinString, blinded |-> 0, blindingFactor |-> 0,
                   signature |-> <<>>]
             blinded == CoinBlind(c, r)
         IN  IF FirstOtpFailure(otp) # 0
             THEN [err |-> ConstructorCatch(<<"OTPGenerationFailed">>),
                   coin |-> NoCoin, calls |-> {"makeGUID", "makeOTP", "hash"}]
             ELSE IF blinded.err # <<>>
             THEN [err |-> ConstructorCatch(blinded.err),
                   coin |-> NoCoin, calls |-> {"makeGUID", "makeOTP", "hash", "blind"}]
             ELSE [err |-> <<>>, coin |-> blinded.coin,
                   calls |-> {"makeGUID", "makeOTP", "hash", "blind"}]

\* CoinUnblind that keeps the signature it was given
CoinUnblindKeepsSigned(c) ==
    IF c.signature = <<>>
    THEN [err |-> <<"UnblindingFailed", "NoSignatureToUnblind">>, coin |-> c]
    ELSE [err |-> <<>>, coin |-> c]

\* CoinUnblind with line 63 testing this.blinded: an undefined signature
\* reaches the library, read as the number 0
CoinUnblindTestsBlinded(c) ==
    LET signed == IF c.signature = <<>> THEN 0 ELSE c.signature[1]
    IN  [err |-> <<>>,
         coin |-> [c EXCEPT !.signature = <<BsUnblind(signed, c.n, c.blindingFactor)>>]]

\* unblind(), coin.js:61-75
CoinUnblind(c) ==
    IF c.signature = <<>>
    THEN [err |-> <<"UnblindingFailed", "NoSignatureToUnblind">>, coin |-> c]
    ELSE [err |-> <<>>,
          coin |-> [c EXCEPT !.signature =
                        <<BsUnblind(c.signature[1], c.n, c.blindingFactor)>>]]

\* toString(), coin.js:77-79
CoinToString(c) == c.coinString

\* CoinGetRis with line 82 testing i > COIN_RIS_LENGTH
CoinGetRisOffByOne(c, isLeft, i) ==
    IF i < 0 \/ i > COIN_RIS_LENGTH
    THEN [err |-> <<"IndexOutOfRange">>, val |-> <<>>]
    ELSE [err |-> <<>>,
          val |-> IF i + 1 > Len(c.leftIdent) THEN <<>>
                  ELSE IF isLeft THEN c.leftIdent[i + 1] ELSE c.rightIdent[i + 1]]

\* getRis(isLeft, i), coin.js:81-87, i counted from 0
CoinGetRis(c, isLeft, i) ==
    IF i < 0 \/ i >= COIN_RIS_LENGTH
    THEN [err |-> <<"IndexOutOfRange">>, val |-> <<>>]
    ELSE [err |-> <<>>, val |-> IF isLeft THEN c.leftIdent[i + 1] ELSE c.rightIdent[i + 1]]

(***************************************************************************)
(* driver.js: the bank and the merchant                                    *)
(***************************************************************************)
\* signCoin(blindedCoinHash), driver.js:20-25
signCoin(blindedCoinHash) == BsSign(blindedCoinHash)

\* element i (from 0) of an array, undefined beyond its end
At(arr, i) == IF i + 1 <= Len(arr) THEN arr[i + 1] ELSE Undefined

\* parseCoin(s), driver.js:34-43
parseCoin(s) ==
    LET fields == Split(s, Dash)
    IN  IF fields[1] # BANK_STR
        THEN [err |-> <<"MalformedCoin">>, lh |-> <<>>, rh |-> <<>>]
        ELSE IF Len(fields) < 5
        THEN [err |-> <<"TypeError">>, lh |-> <<>>, rh |-> <<>>]
        ELSE [err |-> <<>>, lh |-> Split(fields[4], Comma), rh |-> Split(fields[5], Comma)]

RECURSIVE AcceptLoopPushesLeft(_, _, _, _, _)
\* the loop pushing the left half whatever half it checked
AcceptLoopPushesLeft(c, leftHashes, rightHashes, bits, ris) ==
    LET i == Len(ris)
        isLeft == bits[i + 1]
        got == CoinGetRis(c, isLeft, i)
        expectedHash == IF isLeft THEN At(leftHashes, i) ELSE At(rightHashes, i)
    IN  IF i >= COIN_RIS_LENGTH
        THEN [Returned("acceptCoin") EXCEPT !.ris = ris, !.reads = i, !.bits = bits]
        ELSE IF got.err # <<>>
        THEN [Threw("acceptCoin", got.err) EXCEPT !.pos = i, !.reads = i, !.bits = bits]
        ELSE IF hash(got.val) # expectedHash
        THEN [Threw("acceptCoin", <<"HashMismatch">>) EXCEPT
                  !.pos = i, !.reads = i + 1, !.bits = bits]
        ELSE AcceptLoopPushesLeft(c, leftHashes, rightHashes, bits,
                                  Append(ris, HexEncode(CoinGetRis(c, TRUE, i).val)))

RECURSIVE AcceptLoop(_, _, _, _, _)
\* the loop of acceptCoin, driver.js:69-81, from i = Len(ris) on, with the
\* random bits drawn: bits[i + 1] is utils.randInt(2) === 0 at index i
AcceptLoop(c, leftHashes, rightHashes, bits, ris) ==
    LET i == Len(ris)
        isLeft == bits[i + 1]
        got == CoinGetRis(c, isLeft, i)
        expectedHash == IF isLeft THEN At(leftHashes, i) ELSE At(rightHashes, i)
    IN  IF i >= COIN_RIS_LENGTH
        THEN [Returned("acceptCoin") EXCEPT !.ris = ris, !.reads = i, !.bits = bits]
        ELSE IF got.err # <<>>
        THEN [Threw("acceptCoin", got.err) EXCEPT !.pos = i, !.reads = i, !.bits = bits]
        ELSE IF hash(got.val) # expectedHash
        THEN [Threw("acceptCoin", <<"HashMismatch">>) EXCEPT
                  !.pos = i, !.reads = i + 1, !.bits = bits]
        ELSE AcceptLoop(c, leftHashes, rightHashes, bits, Append(ris, HexEncode(got.val)))

\* what the library's verify() does with an undefined signature is not
\* fixed by its contract: it throws on reading it, or it answers false
UndefinedVerify == {"TypeError", "false"}

\* acceptCoin without the comparison of line 76: every half drawn is pushed
acceptCoinNoHashCheck(c, bits, undef) ==
    IF c.signature = <<>> /\ undef = "TypeError"
    THEN [Threw("acceptCoin", <<"TypeError">>) EXCEPT !.bits = bits]
    ELSE IF c.signature = <<>> \/ ~BsVerify(c.signature[1], N, E, CoinToString(c))
    THEN [Threw("acceptCoin", <<"InvalidSignature">>) EXCEPT !.bits = bits]
    ELSE LET parsed == parseCoin(CoinToString(c))
         IN  IF parsed.err # <<>>
             THEN [Threw("acceptCoin", parsed.err) EXCEPT !.bits = bits]
             ELSE [Returned("acceptCoin") EXCEPT
                       !.ris = [k \in 1..COIN_RIS_LENGTH |->
                                   HexEncode(CoinGetRis(c, bits[k], k - 1).val)],
                       !.reads = COIN_RIS_LENGTH, !.bits = bits]

\* acceptCoin(coin), driver.js:53-87
acceptCoin(c, bits, undef) ==
    IF c.signature = <<>> /\ undef = "TypeError"
    THEN [Threw("acceptCoin", <<"TypeError">>) EXCEPT !.bits = bits]
    ELSE IF c.signature = <<>> \/ ~BsVerify(c.signature[1], N, E, CoinToString(c))
    THEN [Threw("acceptCoin", <<"InvalidSignature">>) EXCEPT !.bits = bits]
    ELSE LET parsed == parseCoin(CoinToString(c))
         IN  IF parsed.err # <<>>
             THEN [Threw("acceptCoin", parsed.err) EXCEPT !.bits = bits]
             ELSE AcceptLoop(c, parsed.lh, parsed.rh, bits, <<>>)

\* the try block without the comparison of the lengths: a byte that is
\* not there counts as 0
CheaterTryNoLengthCheck(r1, r2, i) ==
    IF At(r1, i) = Undefined \/ At(r2, i) = Undefined
    THEN [status |-> "threw", identity |-> <<>>]
    ELSE LET buf1 == HexDecode(At(r1, i))
             buf2 == HexDecode(At(r2, i))
             decrypted == BufferToString(
                 [k \in 1..Len(buf1) |->
                     ByteXor(buf1[k], IF k <= Len(buf2) THEN buf2[k] ELSE 0)])
         IN  IF StartsWith(decrypted, IDENT_STR)
             THEN [status |-> "found", identity |-> At(Split(decrypted, Colon), 1)]
             ELSE [status |-> "next", identity |-> <<>>]

\* the try block of determineCheater's loop at index i, driver.js:109-125:
\* Buffer.from throws on an element that is not there; "next" is the
\* continue of line 113 or the end of the block
CheaterTry(r1, r2, i) ==
    IF At(r1, i) = Undefined \/ At(r2, i) = Undefined
    THEN [status |-> "threw", identity |-> <<>>]
    ELSE LET buf1 == HexDecode(At(r1, i))
             buf2 == HexDecode(At(r2, i))
             decrypted == decryptOTP(buf1, buf2)
         IN  IF Len(buf1) # Len(buf2)
             THEN [status |-> "next", identity |-> <<>>]
             ELSE IF StartsWith(decrypted, IDENT_STR)
             THEN [status |-> "found", identity |-> At(Split(decrypted, Colon), 1)]
             ELSE [status |-> "next", identity |-> <<>>]

RECURSIVE CheaterLoopNoCatch(_, _, _)
\* the loop without its catch: what the try block throws comes out
CheaterLoopNoCatch(r1, r2, i) ==
    IF i >= Len(r1)
    THEN [kind |-> "Undetermined", identity |-> <<>>]
    ELSE LET tried == CheaterTry(r1, r2, i)
         IN  IF tried.status = "threw"
             THEN [kind |-> "TypeError", identity |-> <<>>]
             ELSE IF tried.status = "found"
             THEN [kind |-> "PurchaserCheated", identity |-> tried.identity]
             ELSE CheaterLoopNoCatch(r1, r2, i + 1)

RECURSIVE CheaterLoop(_, _, _)
\* the loop of determineCheater, driver.js:108-132, from index i on: the
\* catch of lines 126-129 goes on to the next index
CheaterLoop(r1, r2, i) ==
    IF i >= Len(r1)
    THEN [kind |-> "Undetermined", identity |-> <<>>]
    ELSE LET tried == CheaterTry(r1, r2, i)
         IN  IF tried.status = "threw"
             THEN CheaterLoop(r1, r2, i + 1)
             ELSE IF tried.status = "found"
             THEN [kind |-> "PurchaserCheated", identity |-> tried.identity]
             ELSE CheaterLoop(r1, r2, i + 1)

\* determineCheater without the comparison of line 102
determineCheaterNoReplayCheck(guid, r1, r2) == CheaterLoop(r1, r2, 0)

\* determineCheater(guid, ris1, ris2), driver.js:100-134
determineCheater(guid, r1, r2) ==
    IF r1 = r2
    THEN [kind |-> "MerchantCheated", identity |-> <<>>]
    ELSE CheaterLoop(r1, r2, 0)

\* no report assigned yet
NoReport == [given |-> FALSE, ris |-> <<>>, bits |-> <<>>]

\* no outcome printed yet
NoOutcome == [kind |-> "none", identity |-> <<>>, r1 |-> NoReport, r2 |-> NoReport]

\* what determineCheater prints for two reports, with the reports
Printed(guid, r1, r2) ==
    LET o == determineCheater(guid, r1.ris, r2.ris)
    IN  [kind |-> o.kind, identity |-> o.identity, r1 |-> r1, r2 |-> r2]

(***************************************************************************)
(* Inputs                                                                  *)
(***************************************************************************)
\* purchaser arguments: none or "", "alice", "a:b"
Purchasers == {<<>>, <<97, 108, 105, 99, 101>>, <<97, 58, 98>>}

\* amount arguments: none or 0, 20, -5
Amounts == {0, 20, 0 - 5}

\* n and e arguments: none or 0, the bank's
Moduli == {0, N}
Exponents == {0, E}

\* the random choices of left (TRUE) or right over the indices
BitPatterns == [1..COIN_RIS_LENGTH -> BOOLEAN]

\* the i of a getRis call
RisIndexes == (0 - 1)..(COIN_RIS_LENGTH + 1)

\* what an altered signature differs by
Alterations == {1, 2}

\* the longest report handed to determineCheater directly
MaxReportLen == 2

\* elements of such reports: seven zero bytes, "IDENT:a" and "IDENTab" in
\* hex, "00", and "zz", which is not hex
ForgedValues ==
    {HexEncode(<<0, 0, 0, 0, 0, 0, 0>>),
     HexEncode(IDENT_STR \o Colon \o <<97>>),
     HexEncode(IDENT_STR \o <<97, 98>>),
     <<48, 48>>,
     <<122, 122>>}

\* the reports of at most MaxReportLen such elements
ForgedReports ==
    UNION {[1..n -> ForgedValues] : n \in 0..MaxReportLen}

(***************************************************************************)
(* The calls, as steps on the coin                                         *)
(***************************************************************************)
Init ==
    /\ coin = NoCoin
    /\ owner = <<>>
    /\ sigKind = "absent"
    /\ res = Returned("none")
    /\ ris1 = NoReport
    /\ ris2 = NoReport
    /\ outcome = NoOutcome
    /\ pc = "line136"

\* new Coin(purchaser, amount, n, e)
ConstructStep(purchaser, amount, n, e) ==
    /\ ~coin.constructed
    /\ \E guid \in GUIDS, r \in BlindDraws,
          keys \in KeyDraws(Len(IDENT_STR \o Colon \o purchaser))
                       \cup FailedKeyDraws(Len(IDENT_STR \o Colon \o purchaser)) :
          LET made == CoinConstructor(purchaser, amount, n, e, guid, keys, r)
          IN  /\ coin' = made.coin
              /\ owner' = IF made.err = <<>> THEN purchaser ELSE owner
              /\ res' = [Threw("Coin", made.err) EXCEPT
                              !.calls = made.calls, !.args = <<purchaser, amount, n, e>>]
    /\ sigKind' = "absent"

\* coin.signature = signCoin(coin.blinded)
SignStep ==
    /\ coin.constructed
    /\ coin' = [coin EXCEPT !.signature = <<signCoin(coin.blinded)>>]
    /\ sigKind' = "blinded"
    /\ res' = Returned("signCoin")
    /\ UNCHANGED owner

\* coin.unblind()
UnblindStep ==
    /\ coin.constructed
    /\ LET done == CoinUnblind(coin)
       IN  /\ coin' = done.coin
           /\ res' = Threw("unblind", done.err)
           /\ sigKind' = IF done.err # <<>> THEN sigKind
                         ELSE IF sigKind = "blinded" THEN "spendable"
                         ELSE "other"
    /\ UNCHANGED owner

\* an acceptCoin that takes the signature off the coin it has accepted
AcceptStepSpends ==
    /\ coin.constructed
    /\ \E bits \in BitPatterns,
          undef \in (IF coin.signature = <<>> THEN UndefinedVerify ELSE {"false"}) :
          /\ res' = acceptCoin(coin, bits, undef)
          /\ coin' = IF res'.err = <<>> THEN [coin EXCEPT !.signature = <<>>] ELSE coin
    /\ UNCHANGED <<owner, sigKind>>

\* acceptCoin(coin)
AcceptStep ==
    /\ coin.constructed
    /\ \E bits \in BitPatterns,
          undef \in (IF coin.signature = <<>> THEN UndefinedVerify ELSE {"false"}) :
          res' = acceptCoin(coin, bits, undef)
    /\ UNCHANGED <<coin, owner, sigKind>>

\* the report a variable holds after "= acceptCoin(coin)": the assignment
\* does not happen when the call throws
Assigned(old, r) ==
    IF r.err = <<>> THEN [given |-> TRUE, ris |-> r.ris, bits |-> r.bits] ELSE old

(***************************************************************************)
(* The coin's methods and the merchant, called in any order                *)
(***************************************************************************)
Construct(purchaser, amount, n, e) ==
    /\ ConstructStep(purchaser, amount, n, e)
    /\ UNCHANGED flow

\* coin.blind() called again
Blind ==
    /\ coin.constructed
    /\ \E r \in BlindDraws :
          LET done == CoinBlind(coin, r)
          IN  /\ coin' = done.coin
              /\ res' = [Threw("blind", done.err) EXCEPT !.calls = {"blind"}]
              /\ sigKind' = IF sigKind = "blinded" /\ done.err = <<>> THEN "stale"
                            ELSE sigKind
    /\ UNCHANGED <<owner, flow>>

Sign ==
    /\ SignStep
    /\ UNCHANGED flow

Unblind ==
    /\ UnblindStep
    /\ UNCHANGED flow

\* the signature of a spendable coin is overwritten with another value
AlterSignature ==
    /\ coin.constructed
    /\ sigKind = "spendable"
    /\ \E d \in Alterations :
          coin' = [coin EXCEPT !.signature = <<(coin.signature[1] + d) % N>>]
    /\ sigKind' = "altered"
    /\ res' = Returned("alter")
    /\ UNCHANGED <<owner, flow>>

\* coin.getRis(isLeft, i)
GetRis ==
    /\ coin.constructed
    /\ \E isLeft \in BOOLEAN, i \in RisIndexes :
          LET got == CoinGetRis(coin, isLeft, i)
          IN  res' = [Threw("getRis", got.err) EXCEPT
                          !.val = got.val, !.pos = i, !.bits = <<isLeft>>]
    /\ UNCHANGED <<coin, owner, sigKind, flow>>

Accept ==
    /\ AcceptStep
    /\ UNCHANGED flow

Next ==
    \/ \E purchaser \in Purchasers, amount \in Amounts, n \in Moduli, e \in Exponents :
          Construct(purchaser, amount, n, e)
    \/ Blind
    \/ Sign
    \/ Unblind
    \/ AlterSignature
    \/ GetRis
    \/ Accept

Spec == Init /\ [][Next]_vars

(***************************************************************************)
(* The driver's main flow, driver.js:136-158; a statement that throws ends *)
(* the run                                                                 *)
(***************************************************************************)
After(next) == IF res'.err = <<>> THEN next ELSE "crashed"

\* let coin = new Coin('alice', 20, N, E), for any arguments
Line136 ==
    /\ pc = "line136"
    /\ \E purchaser \in Purchasers, amount \in Amounts, n \in Moduli, e \in Exponents :
          ConstructStep(purchaser, amount, n, e)
    /\ pc' = After("line138")
    /\ UNCHANGED <<ris1, ris2, outcome>>

\* coin.signature = signCoin(coin.blinded)
Line138 ==
    /\ pc = "line138"
    /\ SignStep
    /\ pc' = After("line140")
    /\ UNCHANGED <<ris1, ris2, outcome>>

\* coin.unblind()
Line140 ==
    /\ pc = "line140"
    /\ UnblindStep
    /\ pc' = After("line144")
    /\ UNCHANGED <<ris1, ris2, outcome>>

\* let ris1 = acceptCoin(coin)
Line144 ==
    /\ pc = "line144"
    /\ AcceptStep
    /\ ris1' = Assigned(ris1, res')
    /\ pc' = After("line148")
    /\ UNCHANGED <<ris2, outcome>>

\* let ris2 = acceptCoin(coin)
Line148 ==
    /\ pc = "line148"
    /\ AcceptStep
    /\ ris2' = Assigned(ris2, res')
    /\ pc' = After("line153")
    /\ UNCHANGED <<ris1, outcome>>

\* determineCheater(coin.guid, ris1, ris2)
Line153 ==
    /\ pc = "line153"
    /\ outcome' = Printed(coin.guid, ris1, ris2)
    /\ res' = Returned("determineCheater")
    /\ pc' = "line158"
    /\ UNCHANGED <<coin, owner, sigKind, ris1, ris2>>

\* determineCheater(coin.guid, ris1, ris1)
Line158 ==
    /\ pc = "line158"
    /\ outcome' = Printed(coin.guid, ris1, ris1)
    /\ res' = Returned("determineCheater")
    /\ pc' = "done"
    /\ UNCHANGED <<coin, owner, sigKind, ris1, ris2>>

NextDriver ==
    \/ Line136
    \/ Line138
    \/ Line140
    \/ Line144
    \/ Line148
    \/ Line153
    \/ Line158

SpecDriver == Init /\ [][NextDriver]_vars


(***************************************************************************)
(* The main flow with an identity half corrupted on the way                *)
(***************************************************************************)
\* the bit of a corrupted half that is flipped: the low bit of byte 1
Flipped(half) == [half EXCEPT ![1] = ByteXor(half[1], 1)]

\* every half of the coin is the one its constructor pushed
Untouched(c) ==
    CommitmentString(c.amount, c.guid, c.leftIdent, c.rightIdent) = c.coinString

\* one bit of one identity half of an intact coin flips
CorruptRis ==
    /\ coin.constructed
    /\ Untouched(coin)
    /\ \E k \in 1..COIN_RIS_LENGTH :
          \/ coin' = [coin EXCEPT !.leftIdent[k] = Flipped(coin.leftIdent[k])]
          \/ coin' = [coin EXCEPT !.rightIdent[k] = Flipped(coin.rightIdent[k])]
    /\ res' = Returned("corrupt")
    /\ UNCHANGED <<owner, sigKind, flow>>

NextTamper ==
    \/ NextDriver
    \/ CorruptRis

SpecTamper == Init /\ [][NextTamper]_vars

(***************************************************************************)
(* determineCheater on any two reports                                     *)
(***************************************************************************)
InitForged ==
    /\ coin = NoCoin
    /\ owner = <<>>
    /\ sigKind = "absent"
    /\ res = Returned("none")
    /\ ris1 \in {[given |-> TRUE, ris |-> r, bits |-> <<>>] : r \in ForgedReports}
    /\ ris2 \in {[given |-> TRUE, ris |-> r, bits |-> <<>>] : r \in ForgedReports}
    /\ outcome = NoOutcome
    /\ pc = "forged"

\* determineCheater(guid, ris1, ris2)
Reconcile ==
    /\ pc = "forged"
    /\ \E guid \in GUIDS : outcome' = Printed(guid, ris1, ris2)
    /\ res' = Returned("determineCheater")
    /\ pc' = "reconciled"
    /\ UNCHANGED <<coin, owner, sigKind, ris1, ris2>>

SpecForged == InitForged /\ [][Reconcile]_vars

(***************************************************************************)
(* Properties                                                              *)
(***************************************************************************)
\* C1: a coin whose signature is the bank's signature of coin.blinded,
\* unblinded once, carries a signature that verify accepts for toString()
\* under the bank's (N, E).
RoundTripSignatureValid ==
    sigKind = "spendable" =>
        BsVerify(coin.signature[1], N, E, CoinToString(coin))

\* a coin right after construct, sign and a successful unblind
RoundTripDone ==
    /\ sigKind = "spendable"
    /\ res.op = "unblind"
    /\ res.err = <<>>

\* C4: acceptCoin on a correctly signed, untampered coin returns a report,
\* whatever the purchaser and amount the constructor let through and
\* whatever the bits drawn.
AcceptNeverFailsOnSpendable ==
    (res.op = "acceptCoin" /\ sigKind = "spendable") => res.err = <<>>

EmbeddedLeftHashes(s) == LET f == Split(s, Dash) IN Split(f[Len(f) - 1], Comma)
EmbeddedRightHashes(s) == LET f == Split(s, Dash) IN Split(f[Len(f)], Comma)

\* C6: in every state of a constructed coin, for every i in [0, K) the hash
\* of getRis(left, i) is the i-th left hash in toString() and the hash of
\* getRis(right, i) is the i-th right hash in it.
CommitmentConsistency ==
    coin.constructed =>
        LET left == EmbeddedLeftHashes(CoinToString(coin))
            right == EmbeddedRightHashes(CoinToString(coin))
        IN  /\ Len(left) = COIN_RIS_LENGTH
            /\ Len(right) = COIN_RIS_LENGTH
            /\ \A i \in 0..(COIN_RIS_LENGTH - 1) :
                  /\ hash(CoinGetRis(coin, TRUE, i).val) = left[i + 1]
                  /\ hash(CoinGetRis(coin, FALSE, i).val) = right[i + 1]

\* a coin that was signed, unblinded twice and then shown to a merchant
UsedCoin ==
    /\ coin.constructed
    /\ sigKind = "other"
    /\ res.op = "acceptCoin"

\* C8: getRis(isLeft, i) throws IndexOutOfRange for every i outside [0, K)
\* and returns leftIdent[i] or rightIdent[i] for every i inside; the coin
\* is the same after the call.
GetRisChecksIndex ==
    [][res'.op = "getRis" =>
          /\ coin' = coin
          /\ IF res'.pos < 0 \/ res'.pos >= COIN_RIS_LENGTH
             THEN res'.err = <<"IndexOutOfRange">>
             ELSE /\ res'.err = <<>>
                  /\ res'.val = IF res'.bits[1] THEN coin.leftIdent[res'.pos + 1]
                                ELSE coin.rightIdent[res'.pos + 1]]_vars

\* getRis was called with i = K and threw
GetRisAtK ==
    /\ res.op = "getRis"
    /\ res.pos = COIN_RIS_LENGTH
    /\ res.err = <<"IndexOutOfRange">>

\* C9: unblind on a coin without a signature throws with the cause
\* NoSignatureToUnblind and leaves the coin, its signature, blinded and
\* blindingFactor as they were: no signature comes out of it.
UnblindNeedsSignature ==
    [][(res'.op = "unblind" /\ coin.constructed /\ coin.signature = <<>>) =>
          /\ res'.err # <<>>
          /\ res'.err[Len(res'.err)] = "NoSignatureToUnblind"
          /\ coin'.signature = <<>>
          /\ coin'.blinded = coin.blinded
          /\ coin'.blindingFactor = coin.blindingFactor]_vars

\* unblind was called on an unsigned coin
UnblindRefused ==
    /\ res.op = "unblind"
    /\ res.err # <<>>
    /\ coin.signature = <<>>

\* C10: the constructor throws InvalidParameters whenever an argument is
\* missing, empty or zero, having made no guid, no identity pair and no
\* blinded value, and does not throw it when all four are there.
ConstructValidatesParameters ==
    res.op = "Coin" =>
        IF res.args[1] = <<>> \/ res.args[2] = 0 \/ res.args[3] = 0 \/ res.args[4] = 0
        THEN /\ res.err = <<"InvalidParameters">>
             /\ ~coin.constructed
             /\ res.calls = {}
        ELSE \A k \in 1..Len(res.err) : res.err[k] # "InvalidParameters"

\* the constructor was called without e and threw
ConstructRefused ==
    /\ res.op = "Coin"
    /\ res.args[4] = 0
    /\ res.args[1] # <<>>
    /\ res.err = <<"InvalidParameters">>

\* C2: for two reports acceptCoin returned for the same coin,
\* determineCheater names the purchaser, exactly as given to the
\* constructor, when the choices differ at some index, the merchant when
\* they agree at all, and is never undetermined.
DoubleSpendUnmasksPurchaser ==
    (outcome.kind # "none" /\ outcome.r1.bits # <<>> /\ outcome.r2.bits # <<>>) =>
        IF outcome.r1.bits # outcome.r2.bits
        THEN outcome.kind = "PurchaserCheated" /\ outcome.identity = owner
        ELSE outcome.kind = "MerchantCheated"

\* C3: determineCheater on two element-wise identical reports, of any
\* content and length, blames the merchant and names no purchaser.
IdenticalReportsBlameMerchant ==
    (outcome.kind # "none" /\ outcome.r1.ris = outcome.r2.ris) =>
        /\ outcome.kind = "MerchantCheated"
        /\ outcome.identity = <<>>

\* a one-element report that holds an identity string was handed in twice
ReplayedReport ==
    /\ outcome.kind = "MerchantCheated"
    /\ outcome.r1.ris = <<HexEncode(IDENT_STR \o Colon \o <<97>>)>>
    /\ outcome.r2.ris = outcome.r1.ris

\* the indices at which the half acceptCoin's bits select does not hash to
\* the hash parseCoin finds for it
MismatchedAt(c, bits) ==
    LET parsed == parseCoin(CoinToString(c))
    IN  {i \in 0..(COIN_RIS_LENGTH - 1) :
            hash(CoinGetRis(c, bits[i + 1], i).val)
                # (IF bits[i + 1] THEN At(parsed.lh, i) ELSE At(parsed.rh, i))}

\* C7: when the half acceptCoin selects at some index does not hash to the
\* committed hash parsed from toString(), acceptCoin throws HashMismatch
\* naming the first such index, and no report is returned or assigned.
HashMismatchStopsAccept ==
    (res.op = "acceptCoin" /\ sigKind = "spendable"
        /\ MismatchedAt(coin, res.bits) # {}) =>
        /\ res.err = <<"HashMismatch">>
        /\ res.pos \in MismatchedAt(coin, res.bits)
        /\ \A i \in MismatchedAt(coin, res.bits) : res.pos <= i
        /\ res.ris = <<>>
        /\ pc = "crashed"
        /\ ~ris2.given

\* a merchant drew the corrupted half at index 1 after index 0 had passed
CorruptedHalfDrawn ==
    /\ res.op = "acceptCoin"
    /\ ~Untouched(coin)
    /\ coin.amount > 0
    /\ res.err = <<"HashMismatch">>
    /\ res.pos = 1
    /\ res.reads = 2

\* C20: when makeOTP hands back no key or no ciphertext at some index, or
\* the library's blind hands back no blinded value or factor, the
\* constructor throws one CoinCreationFailed error that carries the cause
\* and returns no coin; so every coin there is has its coinString, all its
\* identity pairs, its blinded value and its blinding factor.
ConstructFailsWhole ==
    /\ (res.op = "Coin" /\ res.err # <<>> /\ res.err # <<"InvalidParameters">>) =>
          /\ res.err \in {<<"CoinCreationFailed", "OTPGenerationFailed">>,
                          <<"CoinCreationFailed", "BlindingFailed", "PrimitiveFailure">>}
          /\ ~coin.constructed
    /\ coin.constructed =>
          /\ coin.coinString # <<>>
          /\ Len(coin.leftIdent) = COIN_RIS_LENGTH
          /\ Len(coin.rightIdent) = COIN_RIS_LENGTH
          /\ \A i \in 1..COIN_RIS_LENGTH :
                coin.leftIdent[i] # <<>> /\ coin.rightIdent[i] # <<>>
          /\ coin.blinded # 0
          /\ coin.blindingFactor # 0

\* the constructor gave up because the library's blind handed back nothing
ConstructLostBlinding ==
    /\ res.op = "Coin"
    /\ res.err = <<"CoinCreationFailed", "BlindingFailed", "PrimitiveFailure">>
    /\ ~coin.constructed

\* C11: determineCheater on two reports of any lengths and contents ends
\* with exactly one of MerchantCheated, PurchaserCheated and Undetermined
\* and throws nothing: an index whose element is missing or does not
\* decode is passed over.
ReconcileNeverFails ==
    pc = "reconciled" =>
        /\ outcome.kind \in {"MerchantCheated", "PurchaserCheated", "Undetermined"}
        /\ (outcome.kind # "PurchaserCheated" => outcome.identity = <<>>)

\* the first report is the longer, so the loop met an index the second
\* does not have, and went on to the end
MissingElementSkipped ==
    /\ pc = "reconciled"
    /\ Len(outcome.r1.ris) > Len(outcome.r2.ris)
    /\ outcome.r2.ris # <<>>
    /\ outcome.r1.ris[1] # outcome.r2.ris[1]
    /\ outcome.kind = "Undetermined"

\* C12: a report acceptCoin returns has COIN_RIS_LENGTH elements; element i
\* is the hex of leftIdent[i] where the bit drawn at i chose left and of
\* rightIdent[i] where it chose right, never the other half; and on a coin
\* that yields a report, every pattern of bits yields one.
ReportFollowsBits ==
    (res.op = "acceptCoin" /\ res.err = <<>>) =>
        /\ Len(res.ris) = COIN_RIS_LENGTH
        /\ \A i \in 1..COIN_RIS_LENGTH :
              /\ res.ris[i] = HexEncode(IF res.bits[i] THEN coin.leftIdent[i]
                                        ELSE coin.rightIdent[i])
              /\ res.ris[i] # HexEncode(IF res.bits[i] THEN coin.rightIdent[i]
                                        ELSE coin.leftIdent[i])
        /\ \A bits \in BitPatterns : acceptCoin(coin, bits, "false").err = <<>>

\* a report that took the left half at the first index and the right half
\* at the second
MixedReport ==
    /\ res.op = "acceptCoin"
    /\ res.err = <<>>
    /\ res.bits[1]
    /\ ~res.bits[2]
    /\ Len(res.ris) = COIN_RIS_LENGTH

\* C13: after unblind has returned, the coin holds neither blinded nor
\* blindingFactor, so no coin whose signature verifies carries the factor
\* it was blinded with.
UnblindClearsBlinding ==
    /\ (res.op = "unblind" /\ res.err = <<>>) =>
          coin.blinded = 0 /\ coin.blindingFactor = 0
    /\ sigKind = "spendable" => coin.blindingFactor = 0

\* C14: a constructed coin always has COIN_RIS_LENGTH left and
\* COIN_RIS_LENGTH right halves; the two halves of an index are equally
\* long and their XOR is "IDENT:" followed by the purchaser the constructor
\* was given.
IdentityPairs ==
    coin.constructed =>
        /\ Len(coin.leftIdent) = COIN_RIS_LENGTH
        /\ Len(coin.rightIdent) = COIN_RIS_LENGTH
        /\ \A i \in 1..COIN_RIS_LENGTH :
              /\ Len(coin.leftIdent[i]) = Len(coin.rightIdent[i])
              /\ [k \in 1..Len(coin.leftIdent[i]) |->
                     ByteXor(coin.leftIdent[i][k], coin.rightIdent[i][k])]
                      = StringToBuffer(IDENT_STR \o Colon \o owner)

\* a coin of purchaser "a:b" that has been signed, unblinded and shown to a
\* merchant
PairsOfUsedCoin ==
    /\ coin.constructed
    /\ owner = <<97, 58, 98>>
    /\ sigKind = "spendable"
    /\ res.op = "acceptCoin"

\* C15: a call of acceptCoin, whether it returns a report or throws, leaves
\* every field of the coin as it was, and toString() of a constructed coin
\* gives the same string after every step.
AcceptLeavesCoin ==
    [][/\ res'.op = "acceptCoin" =>
             /\ coin'.amount = coin.amount
             /\ coin'.guid = coin.guid
             /\ coin'.leftIdent = coin.leftIdent
             /\ coin'.rightIdent = coin.rightIdent
             /\ coin'.coinString = coin.coinString
             /\ coin'.signature = coin.signature
             /\ coin'.blinded = coin.blinded
             /\ coin'.blindingFactor = coin.blindingFactor
       /\ coin.constructed =>
             /\ coin'.constructed
             /\ CoinToString(coin') = CoinToString(coin)]_vars

\* acceptCoin has returned a report for a coin that still has its signature
AcceptedCoinIntact ==
    /\ res.op = "acceptCoin"
    /\ res.err = <<>>
    /\ Len(res.ris) = COIN_RIS_LENGTH
    /\ coin.signature # <<>>
    /\ BsVerify(coin.signature[1], N, E, CoinToString(coin))

\* the XOR of the elements two reports hold at index i, as a string
DecodedAt(r1, r2, i) == decryptOTP(HexDecode(At(r1, i)), HexDecode(At(r2, i)))

\* the indices both reports have, whose elements are equally long and
\* whose XOR is "IDENT:" followed by an identity
WellFormedIndexes(r1, r2) ==
    {i \in 0..(Len(r1) - 1) :
        /\ At(r1, i) # Undefined
        /\ At(r2, i) # Undefined
        /\ Len(HexDecode(At(r1, i))) = Len(HexDecode(At(r2, i)))
        /\ StartsWith(DecodedAt(r1, r2, i), IDENT_STR \o Colon)}

\* C16: for two reports that are not the same, determineCheater names a
\* purchaser exactly when the XOR at some index is "IDENT:" followed by
\* an identity; it names what follows "IDENT:" at the lowest such index,
\* and is undetermined otherwise.
LowestIdentityWins ==
    (pc = "reconciled" /\ outcome.r1.ris # outcome.r2.ris) =>
        LET found == WellFormedIndexes(outcome.r1.ris, outcome.r2.ris)
            lowest == CHOOSE i \in found : \A j \in found : i <= j
            decoded == DecodedAt(outcome.r1.ris, outcome.r2.ris, lowest)
        IN  IF found = {}
            THEN outcome.kind = "Undetermined"
            ELSE /\ outcome.kind = "PurchaserCheated"
                 /\ outcome.identity
                        = SubSeq(decoded, Len(IDENT_STR) + 2, Len(decoded))

\* C17: toString() of every coin the constructor returns splits on "-"
\* into exactly five fields, the first being the bank's tag, the fourth
\* and fifth splitting on "," into the COIN_RIS_LENGTH hashes of the left
\* and of the right halves, in order.
SerializeRoundTrip ==
    coin.constructed =>
        LET fields == Split(CoinToString(coin), Dash)
        IN  /\ Len(fields) = 5
            /\ fields[1] = BANK_STR
            /\ Split(fields[4], Comma)
                   = [i \in 1..COIN_RIS_LENGTH |-> hash(coin.leftIdent[i])]
            /\ Split(fields[5], Comma)
                   = [i \in 1..COIN_RIS_LENGTH |-> hash(coin.rightIdent[i])]

\* the coin is spendable: its signature verifies against toString()
Verifies(c) ==
    /\ c.constructed
    /\ c.signature # <<>>
    /\ BsVerify(c.signature[1], N, E, CoinToString(c))

\* C18: a coin whose signature verifies keeps a signature that verifies
\* over every further blind, unblind, getRis and acceptCoin; and the first
\* unblind after signing gives such a signature also when blind was called
\* in between.
SpendableStays ==
    [][/\ (Verifies(coin) /\ res'.op \in {"blind", "unblind", "getRis", "acceptCoin"})
             => Verifies(coin')
       /\ (sigKind = "stale" /\ res'.op = "unblind" /\ res'.err = <<>>)
             => Verifies(coin')]_vars

\* C19: determineCheater gives the same kind of outcome and the same
\* purchaser for two reports taken in either order, whatever their lengths
\* and contents.
ReconcileOrderFree ==
    pc = "reconciled" =>
        \A guid \in GUIDS :
            LET swapped == determineCheater(guid, outcome.r2.ris, outcome.r1.ris)
            IN  /\ swapped.kind = outcome.kind
                /\ swapped.identity = outcome.identity

\* a purchaser was named from a first report shorter than the second, so
\* that the other order meets an index the shorter report does not have
UnequalReportsNamePurchaser ==
    /\ pc = "reconciled"
    /\ Len(outcome.r1.ris) < Len(outcome.r2.ris)
    /\ outcome.kind = "PurchaserCheated"
    /\ outcome.identity = <<97>>

====
